---- MODULE Spec2Model ----
(***************************************************************************)
(* A model of the substitution engine of ml-knowledge-conflicts: the       *)
(* Answer value object and its answer-type classifier, span location and   *)
(* in-place substitution on a QAExample, the corpus index, the rejection   *)
(* sampler, the popularity binner and the four substitution strategies.    *)
(*                                                                         *)
(* Python values are represented as follows.  A str is a sequence of       *)
(* one-character strings.  A field that may be None holds None (the empty  *)
(* tuple) or Some(v) (the one-element tuple <<v>>); fields whose values    *)
(* are atomic tokens (ner_label, kb_id, answer_type) hold the token or    *)
(* the token "None".  A list is a sequence; a dict is a sequence of        *)
(* entries in insertion order.                                             *)
(***************************************************************************)
EXTENDS Integers, Sequences, FiniteSets, TLC

VARIABLES
    wikidata_info,  \* the Entity-Metadata Store: entries in file order
    answer,         \* the Answer object being preprocessed
    apc,            \* position of the preprocessing of `answer`
    ner_seen,       \* ner_info entries of the annotator consumed so far
    last_call,      \* the Answer method that ran last on `answer`
    examples,       \* dset.examples: the original examples, in order
    params,         \* the arguments of the substitution run
    new_exs,        \* the derived examples collected so far
    spc,            \* position of the substitution run
    error,          \* the exception that ended the run, "None" if none
    ex_idx,         \* the example the loop over dset.examples is at
    wikidata_popularity_bins,  \* the bins the binner returned, once it has
    sample_set,     \* the candidate pool of the rejection sampler
    sub_key,        \* the sampler's current draw, None before the first
    selected,       \* the answer the sampler returned, once it has
    rng,            \* the state of the random module's generator
    first_exs,      \* what the first of two runs returned, None before
    context_spans   \* what each call of _find_answer_in_context returned

vars == <<wikidata_info, answer, apc, ner_seen, last_call,
          examples, params, new_exs, spc, error, ex_idx,
          wikidata_popularity_bins,
          sample_set, sub_key, selected, rng, first_exs,
          context_spans>>

sub_vars == <<examples, params, new_exs, spc, error>>

loop_vars == <<ex_idx>>

first_vars == <<first_exs>>

find_vars == <<context_spans>>

bin_vars == <<wikidata_popularity_bins>>

sel_vars == <<sample_set, sub_key, selected, rng>>

answer_vars == <<answer, apc, ner_seen, last_call>>

-----------------------------------------------------------------------------
(* Bounds of the model.                                                    *)

\* longest answer / annotator text of the preprocessing model
MaxNerTextLen == 1
\* most ner_info entries the annotator returns for one answer text
MaxNerInfos == 2
\* most entries of the Entity-Metadata Store in the preprocessing model
MaxLinkEntities == 1
\* longest entity_types list of a store entry
MaxTypes == 2
\* longest context of the example a substitution is applied to
MaxContextLen == 3
\* most gold answers of the example a substitution is applied to
MaxGold == 2
\* most entries of the Entity-Metadata Store the binner reads
MaxBinEntities == 4
\* largest popularity of an entry the binner reads
MaxPopularity == 1
\* largest num_bins the binner is called with
MaxBins == 3
\* largest max_ents_per_pop the binner is called with
MaxCap == 1
\* most gold answers of the example the sampler is called for
MaxSelGold == 2
\* most answers of the sampler's candidate pool
MaxPool == 2
\* the states of the random generator the model tells apart
RngStates == 2
\* most examples of the dataset a substitution function runs on
MaxExamples == 2
\* largest num_samples (and max_aliases) of a substitution run
MaxSamples == 2
\* most examples of a dataset on which two runs are compared
MaxTwoRunExamples == 1

MaxNeedleLen == 2

MaxFindCalls == 2

-----------------------------------------------------------------------------
(* Python values.                                                          *)

None == <<>>

Some(v) == <<v>>

\* str.lower() on one character
LowerChar(c) ==
    CASE c = "A" -> "a"
      [] c = "B" -> "b"
      [] c = "T" -> "t"
      [] OTHER -> c

\* str.lower() on the characters from 1-based position pos on: the
\* lowercase of U+0130 (capital I with dot above) is the two characters
\* "i" and U+0307 (combining dot above); a character is a one-character
\* string, and the two non-ASCII ones are written by their code points
RECURSIVE lower_from(_, _)
lower_from(s, pos) ==
    IF pos > Len(s) THEN <<>>
    ELSE IF s[pos] = "U+0130"
         THEN <<"i", "U+0307">> \o lower_from(s, pos + 1)
         ELSE <<LowerChar(s[pos])>> \o lower_from(s, pos + 1)

\* str.lower()
lower(s) ==
    IF \A i \in 1..Len(s) : s[i] # "U+0130"
    THEN [i \in 1..Len(s) |-> LowerChar(s[i])]
    ELSE lower_from(s, 1)

\* str.lower() on an entity-type code or a category name (atomic tokens)
LowerToken(t) ==
    CASE t = "Q5" -> "q5"
      [] t = "Year" -> "year"
      [] t = "Q515" -> "q515"
      [] t = "ALL" -> "all"
      [] t = "NONNUMERIC" -> "nonnumeric"
      [] t = "PERSON" -> "person"
      [] t = "DATE" -> "date"
      [] t = "NUMERIC" -> "numeric"
      [] t = "LOCATION" -> "location"
      [] t = "ORGANIZATION" -> "organization"
      [] OTHER -> t

\* all strings over `chars` of length at most n
Strings(chars, n) == UNION {[1..k -> chars] : k \in 0..n}

\* all lists over `elems` without repetition, of length at most n
Lists(elems, n) ==
    {l \in UNION {[1..k -> elems] : k \in 0..n} :
        \A i, j \in 1..Len(l) : i # j => l[i] # l[j]}

\* x in list
InList(x, l) == \E i \in 1..Len(l) : l[i] = x

-----------------------------------------------------------------------------
(* Answer (src/classes/answer.py).                                         *)

\* the labels of the NER vocabulary the classifier tells apart, one it does
\* not ("NORP"), and "None" for an answer the annotator gave no label
NerLabels ==
    {"PERSON", "DATE", "CARDINAL", "QUANTITY", "GPE", "LOC", "ORG", "NORP"}

AnswerTypes == {"PERSON", "DATE", "NUMERIC", "LOCATION", "ORGANIZATION"}

KbIds == {"Q1", "Q2", "Q3", "Q4", "Q5", "Q6"}

\* entity-type codes of the store, before lowercasing
TypeCodes == {"Q5", "Year"}

\* Answer.__init__
Answer(text, spans, ner_label, kb_id, wikidata_label, aliases, wikidata_types, wikipedia_page, popularity, answer_type) ==
    [text |-> text, spans |-> spans, ner_label |-> ner_label, kb_id |-> kb_id,
     wikidata_label |-> wikidata_label, aliases |-> aliases,
     wikidata_types |-> wikidata_types, wikipedia_page |-> wikipedia_page,
     popularity |-> popularity, answer_type |-> answer_type]

\* Answer(text, spans=...): every other field defaults to None
NewAnswer(text, spans) ==
    Answer(text, spans, "None", "None", None, None, None, None, None, "None")

\* the mutant of _select_answer_type: the CARDINAL-year rule is tried after
\* the NUMERIC rule, so it never wins
_select_answer_type_numeric_first(ner_label, wikidata_types) ==
    IF ner_label = "PERSON" THEN "PERSON"
    ELSE IF ner_label = "DATE" THEN "DATE"
    ELSE IF ner_label \in {"CARDINAL", "QUANTITY"} THEN "NUMERIC"
    ELSE IF ner_label \in {"GPE", "LOC"} THEN "LOCATION"
    ELSE IF ner_label = "ORG" THEN "ORGANIZATION"
    ELSE "None"

\* Answer._select_answer_type on (self.ner_label, self.wikidata_types).
\* `"year" in None` raises TypeError, reached only when ner_label is
\* CARDINAL (the `and` short-circuits).
_select_answer_type(ner_label, wikidata_types) ==
    IF ner_label = "PERSON" THEN "PERSON"
    ELSE IF ner_label = "CARDINAL" /\ wikidata_types = None THEN "TypeError"
    ELSE IF ner_label = "DATE"
            \/ (ner_label = "CARDINAL" /\ InList("year", wikidata_types[1]))
         THEN "DATE"
    ELSE IF ner_label \in {"CARDINAL", "QUANTITY"} THEN "NUMERIC"
    ELSE IF ner_label \in {"GPE", "LOC"} THEN "LOCATION"
    ELSE IF ner_label = "ORG" THEN "ORGANIZATION"
    ELSE "None"

\* Answer.update_ner_info: answer_type is left as it is
update_ner_info(a, ner_label, kb_id) ==
    [a EXCEPT !.ner_label = ner_label, !.kb_id = kb_id]

\* Answer.update_wikidata_info(**info)
update_wikidata_info(a, info) ==
    LET types == [i \in 1..Len(info.entity_types) |->
                      LowerToken(info.entity_types[i])]
    IN  [a EXCEPT !.wikidata_label = Some(info.label),
                  !.aliases = Some(info.aliases),
                  !.wikidata_types = Some(types),
                  !.wikipedia_page = Some(info.wikipedia_page),
                  !.popularity = Some(info.popularity),
                  !.answer_type = _select_answer_type(a.ner_label, Some(types))]

\* Answer.is_equivalent
is_equivalent(a, t) == t = a.text \/ lower(t) = lower(a.text)

\* Answer.is_answer_in_context: `if self.spans` (None and [] are falsy)
is_answer_in_context(a) == a.spans # None /\ a.spans[1] # <<>>

-----------------------------------------------------------------------------
(* QAExample (src/classes/qaexample.py).                                   *)

\* re.finditer(re.escape(needle), haystack) from 1-based position pos on:
\* the leftmost non-overlapping literal matches as 0-based (start, end)
\* pairs; an empty needle matches, empty, at every position
RECURSIVE finditer(_, _, _)
finditer(needle, haystack, pos) ==
    IF Len(needle) = 0
    THEN [k \in 1..(Len(haystack) + 2 - pos) |-> <<pos + k - 2, pos + k - 2>>]
    ELSE IF pos + Len(needle) - 1 > Len(haystack) THEN <<>>
    ELSE IF SubSeq(haystack, pos, pos + Len(needle) - 1) = needle
         THEN <<(<<pos - 1, pos - 1 + Len(needle)>>)>>
                  \o finditer(needle, haystack, pos + Len(needle))
         ELSE finditer(needle, haystack, pos + 1)

\* QAExample._find_answer_in_context
_find_answer_in_context(answer_text, context) ==
    finditer(lower(answer_text), lower(context), 1)

\* min(a, b)
Min(a, b) == IF a <= b THEN a ELSE b

\* context[span[0] : span[1]]: a slice is clamped to the string
Slice(context, span) ==
    SubSeq(context, Min(span[1], Len(context)) + 1, Min(span[2], Len(context)))

\* str.replace(old, new) from 1-based position pos on: every leftmost
\* non-overlapping occurrence of old, case-sensitively; an empty old
\* matches before every character and at the end
RECURSIVE replace_from(_, _, _, _)
replace_from(s, old, new, pos) ==
    IF Len(old) = 0
    THEN IF pos > Len(s) THEN new
         ELSE new \o <<s[pos]>> \o replace_from(s, old, new, pos + 1)
    ELSE IF pos > Len(s) THEN <<>>
    ELSE IF pos + Len(old) - 1 <= Len(s)
            /\ SubSeq(s, pos, pos + Len(old) - 1) = old
         THEN new \o replace_from(s, old, new, pos + Len(old))
         ELSE <<s[pos]>> \o replace_from(s, old, new, pos + 1)

\* str.replace(old, new)
replace(s, old, new) == replace_from(s, old, new, 1)

\* the decimal digits of a small index, as in f"...{idx}"
Str(i) ==
    CASE i = 0 -> "0" [] i = 1 -> "1" [] i = 2 -> "2" [] i = 3 -> "3"
      [] i = 4 -> "4" [] i = 5 -> "5" [] i = 6 -> "6" [] i = 7 -> "7"
      [] i = 8 -> "8" [] i = 9 -> "9"

\* QAExample.__init__
QAExample(uid, query, context, gold_answers, is_substitute, metadata, original_example) ==
    [uid |-> uid, query |-> query, context |-> context,
     gold_answers |-> gold_answers, metadata |-> metadata,
     is_substitute |-> is_substitute, original_example |-> original_example]

\* QAExample.new: the answers are located in the context
new(uid, query, context, answers, metadata) ==
    QAExample(uid, query, context,
              [k \in 1..Len(answers) |->
                  NewAnswer(answers[k],
                            Some(_find_answer_in_context(answers[k], context)))],
              FALSE, metadata, None)

\* the orders in which a set can be iterated
Orders(S) ==
    {o \in [1..Cardinality(S) -> S] :
        \A i, j \in 1..Cardinality(S) : i # j => o[i] # o[j]}

\* the spans of all gold answers of an example in its context, concatenated
RECURSIVE replace_spans_from(_, _)
replace_spans_from(ex, k) ==
    IF k > Len(ex.gold_answers) THEN <<>>
    ELSE _find_answer_in_context(ex.gold_answers[k].text, ex.context)
             \o replace_spans_from(ex, k + 1)

\* replace_strs of update_context_with_substitution: the distinct slices of
\* the context at the located spans of every gold answer
replace_strs(ex) ==
    LET spans == replace_spans_from(ex, 1)
    IN  {Slice(ex.context, spans[k]) : k \in 1..Len(spans)}

\* the loop `for replace_str in replace_strs`, in iteration order `order`
RECURSIVE replace_all(_, _, _, _)
replace_all(context, order, k, sub_text) ==
    IF k > Len(order) THEN context
    ELSE replace_all(replace(context, order[k], sub_text), order, k + 1,
                     sub_text)

\* the mutant of raises_IndexError: an empty selection is not an error
never_raises(ex, replace_every_original_answer) == FALSE

\* the mutant of raises_IndexError: the first gold answer in context is
\* selected whatever the flag says
raises_IndexError_always(ex, replace_every_original_answer) ==
    \A k \in 1..Len(ex.gold_answers) :
        ~is_answer_in_context(ex.gold_answers[k])

\* `[a for a in self.gold_answers if a.is_answer_in_context()][0]` raises
\* IndexError when replace_every_original_answer is false and no gold
\* answer is in context
raises_IndexError(ex, replace_every_original_answer) ==
    /\ ~replace_every_original_answer
    /\ \A k \in 1..Len(ex.gold_answers) :
          ~is_answer_in_context(ex.gold_answers[k])

\* the mutant of update_context_with_substitution: the query is rewritten
\* as the context is
update_query_with_substitution(ex, sub_answer, replace_every_original_answer, order) ==
    IF raises_IndexError(ex, replace_every_original_answer)
    THEN [raised |-> "IndexError", ex |-> ex]
    ELSE [raised |-> "None",
          ex |-> [ex EXCEPT !.context =
                     replace_all(ex.context, order, 1, sub_answer.text),
                            !.query =
                     replace_all(ex.query, order, 1, sub_answer.text)]]

\* QAExample.update_context_with_substitution, the set replace_strs being
\* iterated in `order`: the exception raised ("None" if none) and the
\* example afterwards
update_context_with_substitution(ex, sub_answer, replace_every_original_answer, order) ==
    IF raises_IndexError(ex, replace_every_original_answer)
    THEN [raised |-> "IndexError", ex |-> ex]
    ELSE [raised |-> "None",
          ex |-> [ex EXCEPT !.context =
                     replace_all(ex.context, order, 1, sub_answer.text)]]

\* the mutant of stored_spans: the substitute answer is located before the
\* context is rewritten, and those spans are stored
stored_spans_stale(sub_answer, old_context, new_context) ==
    Some(_find_answer_in_context(sub_answer.text, old_context))

\* the spans of the substitute answer after apply_substitution: `spans` is
\* computed in the new context and dropped, so the answer keeps the spans
\* it was passed with
stored_spans(sub_answer, old_context, new_context) == sub_answer.spans

\* the mutant of apply_substitution: the uid is left alone and the
\* substitute is appended to the gold answers
apply_substitution_appends(ex, sub_answer, original_example, sub_type, replace_every_original_answer, order) ==
    LET updated == update_context_with_substitution(
                       ex, sub_answer, replace_every_original_answer, order)
    IN  IF updated.raised # "None" THEN updated
        ELSE [raised |-> "None",
              ex |-> [updated.ex EXCEPT
                         !.gold_answers = Append(@, sub_answer),
                         !.is_substitute = TRUE,
                         !.original_example = Some(original_example)]]

\* QAExample.apply_substitution on example `ex` (self), replace_strs being
\* iterated in `order`; original_example is a reference to an example of
\* the dataset
apply_substitution(ex, sub_answer, original_example, sub_type, replace_every_original_answer, order) ==
    LET renamed == [ex EXCEPT !.uid = sub_type \o <<"_">> \o ex.uid]
        updated == update_context_with_substitution(
                       renamed, sub_answer, replace_every_original_answer,
                       order)
        spans == stored_spans(sub_answer, ex.context, updated.ex.context)
    IN  IF updated.raised # "None" THEN updated
        ELSE [raised |-> "None",
              ex |-> [updated.ex EXCEPT
                         !.gold_answers =
                             <<[sub_answer EXCEPT !.spans = spans]>>,
                         !.is_substitute = TRUE,
                         !.original_example = Some(original_example)]]

-----------------------------------------------------------------------------
(* The Entity-Metadata Store: the JSON object of wikidata_info_path, as    *)
(* the sequence of its entries [kb_id, info] in file order.                *)

\* `kb_id in wikidata_info`
InStore(store, kb_id) == \E i \in 1..Len(store) : store[i].kb_id = kb_id

\* wikidata_info[kb_id]
StoreInfo(store, kb_id) ==
    LET i == CHOOSE i \in 1..Len(store) : store[i].kb_id = kb_id
    IN  store[i].info

\* the keys of a store are pairwise distinct
DistinctKeys(store) ==
    \A i, j \in 1..Len(store) : i # j => store[i].kb_id # store[j].kb_id

-----------------------------------------------------------------------------
(* Substitution helpers (src/substitution_fns.py).                         *)

\* the mutant of deepcopy: the original object itself is handed on
deepcopy_shared(ex) == [obj |-> ex, fresh |-> FALSE]

\* copy.deepcopy(ex): an equal object that shares nothing with ex
deepcopy(ex) == [obj |-> ex, fresh |-> TRUE]

\* create_new_example on the i-th example of exs, replace_strs being
\* iterated in `order`: the exception raised ("None" if none), the new
\* example, and the examples afterwards (an object that was copied is not
\* touched by the mutation of its copy)
create_new_example(exs, i, new_id, answer_text, ner_label, kb_id, wikidata_label, aliases, wikidata_types, wikipedia_page, popularity, answer_type, replace_every_original_answer, order) ==
    LET sub_ex == deepcopy(exs[i])
        sub_answer == Answer(answer_text, None, ner_label, kb_id,
                             wikidata_label, aliases, wikidata_types,
                             wikipedia_page, popularity, answer_type)
        applied == apply_substitution(sub_ex.obj, sub_answer, i, new_id,
                                      replace_every_original_answer, order)
    IN  [raised |-> applied.raised,
         sub_ex |-> applied.ex,
         examples |-> IF sub_ex.fresh THEN exs
                      ELSE [exs EXCEPT ![i] = applied.ex]]

-----------------------------------------------------------------------------
(* normalize_text (src/utils.py) and the rejection sampler                 *)
(* (src/substitution_fns.py).                                              *)

\* the characters of string.punctuation among the model's characters
Punctuation == {".", ",", "-", "_"}

\* the characters str.split() splits at
Whitespace == {" "}

\* the characters \b tells from the others: [a-zA-Z0-9_]
IsWordChar(c) == c \notin (Whitespace \cup (Punctuation \ {"_"}))

\* remove_punc
remove_punc(text) == SelectSeq(text, LAMBDA ch : ch \notin Punctuation)

\* the end of the run of word characters that starts at pos
RECURSIVE word_end(_, _)
word_end(text, pos) ==
    IF pos < Len(text) /\ IsWordChar(text[pos + 1])
    THEN word_end(text, pos + 1)
    ELSE pos

\* remove_articles from pos on: re.sub(r"\b(a|an|the)\b", " ", text); the
\* pattern matches whole words only, so the text is rewritten word by word
RECURSIVE remove_articles_from(_, _)
remove_articles_from(text, pos) ==
    IF pos > Len(text) THEN <<>>
    ELSE IF IsWordChar(text[pos])
         THEN LET e == word_end(text, pos)
                  word == SubSeq(text, pos, e)
              IN  (IF word \in {<<"a">>, <<"a", "n">>, <<"t", "h", "e">>}
                   THEN <<" ">> ELSE word)
                      \o remove_articles_from(text, e + 1)
         ELSE <<text[pos]>> \o remove_articles_from(text, pos + 1)

\* remove_articles
remove_articles(text) == remove_articles_from(text, 1)

\* white_space_fix from pos on: " ".join(text.split()); `started` tells
\* whether a word has been emitted
RECURSIVE white_space_fix_from(_, _, _)
white_space_fix_from(text, pos, started) ==
    IF pos > Len(text) THEN <<>>
    ELSE IF text[pos] \in Whitespace
         THEN white_space_fix_from(text, pos + 1, started)
         ELSE (IF started /\ text[pos - 1] \in Whitespace THEN <<" ">> ELSE <<>>)
                  \o <<text[pos]>> \o white_space_fix_from(text, pos + 1, TRUE)

\* white_space_fix
white_space_fix(text) == white_space_fix_from(text, 1, FALSE)

\* normalize_text
normalize_text(s) == white_space_fix(remove_articles(remove_punc(lower(s))))

\* the keys of norm_gold_answers
norm_gold_answers(ex) ==
    {normalize_text(ex.gold_answers[k].text) : k \in 1..Len(ex.gold_answers)}

\* the mutant of rejects: the draw is compared with the gold answers' raw
\* texts, not their normalized texts
rejects_raw(ex, key) ==
    IF key = None THEN TRUE
    ELSE \/ key[1] = <<>>
         \/ key[1] \in {ex.gold_answers[k].text :
                            k \in 1..Len(ex.gold_answers)}

\* the loop condition of select_random_non_identical_answer:
\* `not sub_key or normalize_text(sub_key) in norm_gold_answers`
rejects(ex, key) ==
    IF key = None THEN TRUE
    ELSE \/ key[1] = <<>>
         \/ normalize_text(key[1]) \in norm_gold_answers(ex)

\* the generator after a draw: it steps through its cycle of states, and
\* which element random.choice hands out then is left open
rng_next(state) == (state + 1) % RngStates

\* sample_set[sub_key]
SampleOf(pool, key) ==
    LET k == CHOOSE k \in 1..Len(pool) : pool[k].text = key IN pool[k]

\* the answers select_random_non_identical_answer can return: those the
\* loop condition lets through
select_random_non_identical_answer(ex, pool) ==
    {pool[k] : k \in {k \in 1..Len(pool) : ~rejects(ex, Some(pool[k].text))}}

-----------------------------------------------------------------------------
(* The popularity binner (src/substitution_fns.py).                        *)

\* what is left of a dict after `for kb_id in list(d.keys())` has deleted
\* the entries whose 1-based position is not in `kept`
RECURSIVE keep_from(_, _, _)
keep_from(d, k, kept) ==
    IF k > Len(d) THEN <<>>
    ELSE (IF k \in kept THEN <<d[k]>> ELSE <<>>) \o keep_from(d, k + 1, kept)

\* `"Q5" in wikidata_info[kb_id]["entity_types"]`
has_entity_type(d, k) == InList("Q5", d[k].info.entity_types)

\* num_ents_per_pop[pop] when the cap loop reaches the k-th entry: the
\* entries before it with its popularity, deleted or not
num_ents_per_pop(d, k) ==
    Cardinality({j \in 1..(k - 1) :
                    d[j].info.popularity = d[k].info.popularity})

\* the mutant of over_cap: one entity too many is kept per popularity
over_cap_off_by_one(count, max_ents_per_pop) == count > max_ents_per_pop

\* `num_ents_per_pop[pop] >= max_ents_per_pop`
over_cap(count, max_ents_per_pop) == count >= max_ents_per_pop

\* sorted(..., key=popularity), which is stable: e is put after the entries
\* of the sorted list whose popularity is not larger
RECURSIVE insert_sorted(_, _)
insert_sorted(sorted, e) ==
    IF sorted = <<>> THEN <<e>>
    ELSE IF sorted[Len(sorted)].info.popularity <= e.info.popularity
         THEN Append(sorted, e)
         ELSE Append(insert_sorted(SubSeq(sorted, 1, Len(sorted) - 1), e),
                     sorted[Len(sorted)])

RECURSIVE sorted_by_popularity(_, _)
sorted_by_popularity(d, k) ==
    IF k = 0 THEN <<>>
    ELSE insert_sorted(sorted_by_popularity(d, k - 1), d[k])

\* Python's a // b for a >= 0 and b # 0 (the quotient is rounded down)
FloorDiv(a, b) ==
    IF b > 0 THEN a \div b ELSE 0 - ((a + (0 - b) - 1) \div (0 - b))

\* [kb_ids[i : i + bin_size] for i in range(0, len(kb_ids), bin_size)],
\* from 0-based offset i on, for bin_size > 0
RECURSIVE chunks_from(_, _, _)
chunks_from(kb_ids, i, bin_size) ==
    IF i >= Len(kb_ids) THEN <<>>
    ELSE <<SubSeq(kb_ids, i + 1, Min(i + bin_size, Len(kb_ids)))>>
             \o chunks_from(kb_ids, i + bin_size, bin_size)

\* bin_wikidata_entities_by_popularity on the loaded store: the exception
\* raised ("None" if none) and the list of bins, each a dict
bin_wikidata_entities_by_popularity(store, num_bins, max_ents_per_pop) ==
    LET typed == keep_from(store, 1,
                           {k \in 1..Len(store) : has_entity_type(store, k)})
        capped == keep_from(typed, 1,
                            {k \in 1..Len(typed) :
                                ~over_cap(num_ents_per_pop(typed, k),
                                          max_ents_per_pop)})
        kb_ids == sorted_by_popularity(capped, Len(capped))
    IN  IF num_bins = 0 THEN [raised |-> "ZeroDivisionError", bins |-> <<>>]
        ELSE LET bin_size == FloorDiv(Len(kb_ids), num_bins) + 1
             IN  IF bin_size = 0
                 THEN [raised |-> "ValueError", bins |-> <<>>]
                 ELSE IF bin_size < 0 THEN [raised |-> "None", bins |-> <<>>]
                 ELSE [raised |-> "None",
                       bins |-> chunks_from(kb_ids, 0, bin_size)]

-----------------------------------------------------------------------------
(* The substitution functions (src/substitution_fns.py), one original      *)
(* example at a time.  What a substitution function does with an example   *)
(* is a list of jobs, one per call of create_new_example: the new_id and   *)
(* the fields of the substitute answer.                                    *)

Job(new_id, answer_text, ner_label, kb_id, wikidata_label, aliases, wikidata_types, wikipedia_page, popularity, answer_type) ==
    [new_id |-> new_id, answer_text |-> answer_text, ner_label |-> ner_label,
     kb_id |-> kb_id, wikidata_label |-> wikidata_label, aliases |-> aliases,
     wikidata_types |-> wikidata_types, wikipedia_page |-> wikipedia_page,
     popularity |-> popularity, answer_type |-> answer_type]

\* the calls of create_new_example for jobs k.. on the i-th example, in
\* order; an exception ends them.  `made` are the examples made so far.
RECURSIVE run_jobs(_, _, _, _, _, _, _)
run_jobs(exs, i, jobs, k, replace_every, order, made) ==
    IF k > Len(jobs) THEN [raised |-> "None", sub_exs |-> made, examples |-> exs]
    ELSE LET j == jobs[k]
             one == create_new_example(
                        exs, i, j.new_id, j.answer_text, j.ner_label, j.kb_id,
                        j.wikidata_label, j.aliases, j.wikidata_types,
                        j.wikipedia_page, j.popularity, j.answer_type,
                        replace_every, order)
         IN  IF one.raised # "None"
             THEN [raised |-> one.raised, sub_exs |-> made,
                   examples |-> one.examples]
             ELSE run_jobs(one.examples, i, jobs, k + 1, replace_every, order,
                           Append(made, one.sub_ex))

\* the answer types of the gold answers that have one, in order
RECURSIVE typed_answers_from(_, _)
typed_answers_from(ex, k) ==
    IF k > Len(ex.gold_answers) THEN <<>>
    ELSE (IF ex.gold_answers[k].answer_type # "None"
          THEN <<ex.gold_answers[k].answer_type>> ELSE <<>>)
             \o typed_answers_from(ex, k + 1)

\* QAExample.get_example_answer_type: Counter(...).most_common(1), the
\* most frequent type, the one met first among equally frequent ones
get_example_answer_type(ex) ==
    LET types == typed_answers_from(ex, 1)
        count(t) == Cardinality({k \in 1..Len(types) : types[k] = t})
    IN  IF types = <<>> THEN "None"
        ELSE LET first == CHOOSE k \in 1..Len(types) :
                     /\ \A n \in 1..Len(types) : count(types[n]) <= count(types[k])
                     /\ \A n \in 1..(k - 1) : count(types[n]) < count(types[k])
             IN  types[first]

\* alias_to_info of alias_substitution_fn.sub_fn as the pairs
\* <<alias, gold answer>>: for an alias of several gold answers the last
\* gold answer is kept
alias_to_info(ex) ==
    LET golds == ex.gold_answers
        has_aliases(g) == golds[g].aliases # None
        kept(g, alias) ==
            \A h \in (g + 1)..Len(golds) :
                ~(has_aliases(h) /\ InList(alias, golds[h].aliases[1]))
    IN  UNION {{<<golds[g].aliases[1][n], golds[g]>> :
                   n \in {n \in 1..Len(golds[g].aliases[1]) :
                             kept(g, golds[g].aliases[1][n])}} :
               g \in {g \in 1..Len(golds) : has_aliases(g)}}

\* set(alias_to_info.keys()) - set(gold_answer_texts)
valid_alias_set(ex) ==
    {p[1] : p \in alias_to_info(ex)}
        \ {ex.gold_answers[k].text : k \in 1..Len(ex.gold_answers)}

\* the jobs of alias_substitution_fn.sub_fn for valid_aliases, the list
\* made of the set in some order
alias_jobs(ex, valid_aliases) ==
    [n \in 1..Len(valid_aliases) |->
        LET alias == valid_aliases[n]
            ga == (CHOOSE p \in alias_to_info(ex) : p[1] = alias)[2]
        IN  Job(<<"alias-sub-", Str(n - 1)>>, alias, ga.ner_label, ga.kb_id,
                ga.wikidata_label, Some(<<ga.text>>), ga.wikidata_types,
                ga.wikipedia_page, ga.popularity, ga.answer_type)]

\* alias_exs[:max_aliases] `if max_aliases`
cap_aliases(alias_exs, max_aliases) ==
    IF max_aliases = 0 THEN alias_exs
    ELSE IF max_aliases > 0
         THEN SubSeq(alias_exs, 1, Min(max_aliases, Len(alias_exs)))
         ELSE SubSeq(alias_exs, 1, Len(alias_exs) + max_aliases)

\* the condition under which alias_substitution_fn expands an example:
\* "match", "skip", or the exception `None.lower()` raises
alias_category_check(category, ex_answer_type) ==
    IF LowerToken(category) = "all" THEN "match"
    ELSE IF LowerToken(category) = "nonnumeric"
            /\ category \notin {"None", "DATE", "NUMERIC"}
         THEN "match"
    ELSE IF ex_answer_type = "None" THEN "AttributeError"
    ELSE IF LowerToken(category) = LowerToken(ex_answer_type) THEN "match"
    ELSE "skip"

\* the condition under which the other substitution functions expand an
\* example
category_check(category, ex_answer_type) ==
    IF ex_answer_type = "None" THEN "skip"
    ELSE IF LowerToken(category) = "all"
            \/ LowerToken(category) = LowerToken(ex_answer_type)
         THEN "match"
    ELSE "skip"

\* all gold answers of a dataset, in order
RECURSIVE answers_from(_, _)
answers_from(exs, i) ==
    IF i > Len(exs) THEN <<>>
    ELSE exs[i].gold_answers \o answers_from(exs, i + 1)

\* the mutant of answer_group: the answers of every type are in every group
answer_group_any_type(exs, group) ==
    SelectSeq(answers_from(exs, 1), LAMBDA a : a.answer_type # "None")

\* group_answers_by_answer_type(dset)[group]: a dict keyed by answer text;
\* a key stays where it was first inserted and holds the answer seen last
answer_group(exs, group) ==
    LET all == answers_from(exs, 1)
        mine == SelectSeq(all, LAMBDA a : a.answer_type = group)
        firsts == {k \in 1..Len(mine) :
                      \A n \in 1..(k - 1) : mine[n].text # mine[k].text}
        keys == keep_from(mine, 1, firsts)
    IN  [k \in 1..Len(keys) |->
            LET n == CHOOSE n \in 1..Len(mine) :
                         /\ mine[n].text = keys[k].text
                         /\ \A m \in (n + 1)..Len(mine) :
                               mine[m].text # keys[k].text
            IN  mine[n]]

\* list(group_answers_by_answer_type(dset).keys()): the answer types in
\* the order in which the dataset first shows them
group_types(exs) ==
    LET all == answers_from(exs, 1)
        typed == SelectSeq(all, LAMBDA a : a.answer_type # "None")
        firsts == {k \in 1..Len(typed) :
                      \A n \in 1..(k - 1) :
                          typed[n].answer_type # typed[k].answer_type}
        kept == keep_from(typed, 1, firsts)
    IN  [k \in 1..Len(kept) |-> kept[k].answer_type]

\* the job of one sample of corpus_substitution_fn.sub_fn or
\* type_swap_substitution_fn.sub_fn
sample_job(tag, idx, sub_answer) ==
    Job(<<tag, Str(idx)>>, sub_answer.text, sub_answer.ner_label,
        sub_answer.kb_id, sub_answer.wikidata_label, sub_answer.aliases,
        sub_answer.wikidata_types, sub_answer.wikipedia_page,
        sub_answer.popularity, sub_answer.answer_type)

\* the job of popularity_substitution_fn.sub_fn for a bin and the entry
\* random.choice drew from it
popularity_job(bin_id, entry) ==
    Job(<<"pop-sub-", Str(bin_id)>>, entry.info.label, "None", entry.kb_id,
        Some(entry.info.label), Some(entry.info.aliases),
        Some(entry.info.entity_types), Some(entry.info.wikipedia_page),
        Some(entry.info.popularity), "None")

\* the mutant of swap_targets: only the first other group is visited
swap_targets_first_only(exs, ex) ==
    LET others == SelectSeq(group_types(exs),
                            LAMBDA g : g # get_example_answer_type(ex))
    IN  SubSeq(others, 1, Min(1, Len(others)))

\* the target groups type_swap_substitution_fn visits for an example
swap_targets(exs, ex) ==
    SelectSeq(group_types(exs), LAMBDA g : g # get_example_answer_type(ex))

-----------------------------------------------------------------------------
(* Preprocessing of one Answer (src/classes/qadataset.py): label_entities  *)
(* consumes the annotator's ner_info entries for the answer's text one by  *)
(* one, then wikidata_linking looks the answer's kb_id up in the store.    *)
(* After the pipeline the two update methods may be called in any order.   *)

NerTexts == Strings({"A", "a"}, MaxNerTextLen) \ {<<>>}

\* the store entries of the preprocessing model
LinkInfos ==
    [label : {<<"A">>}, aliases : {<<>>},
     entity_types : Lists(TypeCodes, MaxTypes),
     wikipedia_page : {<<"A">>}, popularity : {0}]

LinkStores ==
    {s \in UNION {[1..k -> [kb_id : {"Q1", "Q2"}, info : LinkInfos]] :
                      k \in 0..MaxLinkEntities} : DistinctKeys(s)}

InitAnswer ==
    /\ wikidata_info \in LinkStores
    /\ answer \in {NewAnswer(t, Some(<<>>)) : t \in NerTexts}
    /\ apc = "label"
    /\ ner_seen = 0
    /\ last_call = "__init__"
    /\ examples = <<>>
    /\ params = [substitution |-> "None"]
    /\ new_exs = <<>>
    /\ spc = "idle"
    /\ error = "None"
    /\ ex_idx = 1
    /\ wikidata_popularity_bins = None
    /\ sample_set = <<>>
    /\ sub_key = None
    /\ selected = None
    /\ rng = 0
    /\ first_exs = None
    /\ context_spans = <<>>

\* label_entities, one ner_info of answers_to_info[answer.text]
label_entities_step ==
    /\ apc = "label"
    /\ ner_seen < MaxNerInfos
    /\ \E text \in NerTexts, label \in NerLabels, id \in {"Q1", "Q3", "None"} :
          IF is_equivalent(answer, text)
          THEN /\ answer' = update_ner_info(answer, label, id)
               /\ last_call' = "update_ner_info"
          ELSE UNCHANGED <<answer, last_call>>
    /\ ner_seen' = ner_seen + 1
    /\ UNCHANGED <<loop_vars, apc, wikidata_info, first_vars, find_vars, sub_vars, bin_vars, sel_vars>>

\* label_entities returns: the ner_info list is exhausted
label_entities_done ==
    /\ apc = "label"
    /\ apc' = "link"
    /\ ner_seen' = 0
    /\ UNCHANGED <<loop_vars, answer, last_call, wikidata_info, first_vars, find_vars, sub_vars, bin_vars, sel_vars>>

\* wikidata_linking on the answer
wikidata_linking ==
    /\ apc = "link"
    /\ IF InStore(wikidata_info, answer.kb_id)
       THEN /\ answer' = update_wikidata_info(
                             answer, StoreInfo(wikidata_info, answer.kb_id))
            /\ last_call' = "update_wikidata_info"
       ELSE UNCHANGED <<answer, last_call>>
    /\ apc' = "done"
    /\ UNCHANGED <<loop_vars, ner_seen, wikidata_info, first_vars, find_vars, sub_vars, bin_vars, sel_vars>>

\* a later call of Answer.update_ner_info
call_update_ner_info ==
    /\ apc = "done"
    /\ \E label \in NerLabels, id \in {"Q1", "None"} :
          answer' = update_ner_info(answer, label, id)
    /\ last_call' = "update_ner_info"
    /\ UNCHANGED <<loop_vars, apc, ner_seen, wikidata_info, first_vars, find_vars, sub_vars, bin_vars, sel_vars>>

\* a later call of Answer.update_wikidata_info
call_update_wikidata_info ==
    /\ apc = "done"
    /\ \E info \in LinkInfos : answer' = update_wikidata_info(answer, info)
    /\ last_call' = "update_wikidata_info"
    /\ UNCHANGED <<loop_vars, apc, ner_seen, wikidata_info, first_vars, find_vars, sub_vars, bin_vars, sel_vars>>

NextAnswer ==
    \/ label_entities_step
    \/ label_entities_done
    \/ wikidata_linking
    \/ call_update_ner_info
    \/ call_update_wikidata_info

SpecAnswer == InitAnswer /\ [][NextAnswer]_vars

-----------------------------------------------------------------------------
(* One substitution applied to one example: create_new_example is called   *)
(* once on an example built by QAExample.new, with a substitute text, a    *)
(* replace-every flag and an iteration order of the set replace_strs.      *)

ApplyChars == {"A", "a", "b"}

ApplyContexts == Strings(ApplyChars, MaxContextLen)

ApplyGoldTexts == {<<"a">>, <<"b">>, <<"a", "b">>, <<"b", "a">>}

ApplySubTexts ==
    {<<"a">>, <<"A">>, <<"b">>, <<"c">>, <<"b", "a">>, <<"A", "a">>}

\* the answer the preprocessing model leaves alone in the other models
IdleAnswer == NewAnswer(<<>>, None)

InitApply ==
    /\ wikidata_info = <<>>
    /\ answer = IdleAnswer
    /\ apc = "idle"
    /\ ner_seen = 0
    /\ last_call = "__init__"
    /\ \E context \in ApplyContexts,
          answers \in Lists(ApplyGoldTexts, MaxGold) \ {<<>>} :
          examples = <<new(<<"q1">>, <<"q">>, context, answers, <<>>)>>
    /\ params \in [substitution : {"None"}, replace_every : BOOLEAN,
                    answer_text : ApplySubTexts]
    /\ new_exs = <<>>
    /\ spc = "ready"
    /\ error = "None"
    /\ ex_idx = 1
    /\ wikidata_popularity_bins = None
    /\ sample_set = <<>>
    /\ sub_key = None
    /\ selected = None
    /\ rng = 0
    /\ first_exs = None
    /\ context_spans = <<>>

\* one call of create_new_example on the example
call_create_new_example ==
    /\ spc = "ready"
    /\ \E order \in Orders(replace_strs(examples[1])) :
          LET made == create_new_example(
                          examples, 1, <<"sub">>, params.answer_text, "None", "None",
                          None, None, None, None, None, "None",
                          params.replace_every, order)
          IN  /\ examples' = made.examples
              /\ error' = made.raised
              /\ IF made.raised = "None"
                 THEN /\ new_exs' = Append(new_exs, made.sub_ex)
                      /\ spc' = "returned"
                 ELSE /\ new_exs' = new_exs
                      /\ spc' = "raised"
    /\ UNCHANGED <<loop_vars, params, wikidata_info, first_vars, find_vars, answer_vars, bin_vars, sel_vars>>

NextApply == call_create_new_example

SpecApply == InitApply /\ [][NextApply]_vars

-----------------------------------------------------------------------------
(* Span location: _find_answer_in_context is called, more than once, on    *)
(* one answer text and one context.                                        *)

FindChars == {"A", "a", "b", "U+0130"}

FindNeedles == Strings(FindChars, MaxNeedleLen)

FindHaystacks == Strings(FindChars, MaxContextLen)

InitFind ==
    /\ wikidata_info = <<>>
    /\ answer = IdleAnswer
    /\ apc = "idle"
    /\ ner_seen = 0
    /\ last_call = "__init__"
    /\ examples = <<>>
    /\ params \in [answer_text : FindNeedles, context : FindHaystacks]
    /\ new_exs = <<>>
    /\ spc = "ready"
    /\ error = "None"
    /\ ex_idx = 1
    /\ wikidata_popularity_bins = None
    /\ sample_set = <<>>
    /\ sub_key = None
    /\ selected = None
    /\ rng = 0
    /\ first_exs = None
    /\ context_spans = <<>>

\* one call of QAExample._find_answer_in_context(answer_text, context)
call_find_answer_in_context ==
    /\ Len(context_spans) < MaxFindCalls
    /\ context_spans' =
           Append(context_spans,
                  _find_answer_in_context(params.answer_text, params.context))
    /\ spc' = "returned"
    /\ UNCHANGED <<loop_vars, examples, params, new_exs, error, wikidata_info, first_vars, answer_vars, bin_vars, sel_vars>>

NextFind == call_find_answer_in_context

SpecFind == InitFind /\ [][NextFind]_vars

-----------------------------------------------------------------------------
(* The popularity binner run on a store.  The store's keys are distinct;   *)
(* its k-th entry is given the k-th identifier.                            *)

KbId(k) ==
    CASE k = 1 -> "Q1" [] k = 2 -> "Q2" [] k = 3 -> "Q3" [] k = 4 -> "Q4"
      [] k = 5 -> "Q5" [] k = 6 -> "Q6"

\* an entry of the store the binner reads: a human (type Q5) or not
BinInfos ==
    [label : {<<"b">>}, aliases : {<<>>},
     entity_types : {<<"Q5">>, <<"Year">>},
     wikipedia_page : {<<"b">>}, popularity : 0..MaxPopularity]

BinStores ==
    UNION {{[k \in 1..n |-> [kb_id |-> KbId(k), info |-> infos[k]]] :
               infos \in [1..n -> BinInfos]} : n \in 0..MaxBinEntities}

InitBin ==
    /\ wikidata_info \in BinStores
    /\ answer = IdleAnswer
    /\ apc = "idle"
    /\ ner_seen = 0
    /\ last_call = "__init__"
    /\ examples = <<>>
    /\ params \in [substitution : {"None"}, num_bins : 1..MaxBins,
                   max_ents_per_pop : 0..MaxCap]
    /\ new_exs = <<>>
    /\ spc = "ready"
    /\ error = "None"
    /\ ex_idx = 1
    /\ wikidata_popularity_bins = None
    /\ sample_set = <<>>
    /\ sub_key = None
    /\ selected = None
    /\ rng = 0
    /\ first_exs = None
    /\ context_spans = <<>>

\* one call of bin_wikidata_entities_by_popularity
call_bin_wikidata_entities_by_popularity ==
    /\ spc = "ready"
    /\ LET binned == bin_wikidata_entities_by_popularity(
                         wikidata_info, params.num_bins,
                         params.max_ents_per_pop)
       IN  /\ error' = binned.raised
           /\ IF binned.raised = "None"
              THEN /\ wikidata_popularity_bins' = Some(binned.bins)
                   /\ spc' = "returned"
              ELSE /\ wikidata_popularity_bins' = None
                   /\ spc' = "raised"
    /\ UNCHANGED <<loop_vars, wikidata_info, first_vars, find_vars, answer_vars, examples, params, new_exs, sel_vars>>

NextBin == call_bin_wikidata_entities_by_popularity

SpecBin == InitBin /\ [][NextBin]_vars

\* the binner called with a num_bins that is zero or negative
InitBinNonPositive ==
    /\ wikidata_info \in BinStores
    /\ answer = IdleAnswer
    /\ apc = "idle"
    /\ ner_seen = 0
    /\ last_call = "__init__"
    /\ examples = <<>>
    /\ params \in [substitution : {"None"}, num_bins : (0 - MaxBins)..0,
                   max_ents_per_pop : 0..MaxCap]
    /\ new_exs = <<>>
    /\ spc = "ready"
    /\ error = "None"
    /\ ex_idx = 1
    /\ wikidata_popularity_bins = None
    /\ sample_set = <<>>
    /\ sub_key = None
    /\ selected = None
    /\ rng = 0
    /\ first_exs = None
    /\ context_spans = <<>>

SpecBinNonPositive == InitBinNonPositive /\ [][NextBin]_vars

-----------------------------------------------------------------------------
(* The rejection sampler run for one example on one candidate pool, one    *)
(* iteration of its loop at a time.  The pool is a group of the Corpus     *)
(* Index, which is never empty.                                            *)

SelTexts ==
    {<<"b">>, <<"B">>, <<"b", ".">>, <<"a", " ", "b">>, <<"b", " ", "b">>,
     <<"a">>}

\* the dicts with keys `texts`, in every insertion order
SelPools ==
    {[k \in 1..Len(l) |-> NewAnswer(l[k], Some(<<>>))] :
        l \in Lists(SelTexts, MaxPool) \ {<<>>}}

InitSelect ==
    /\ wikidata_info = <<>>
    /\ answer = IdleAnswer
    /\ apc = "idle"
    /\ ner_seen = 0
    /\ last_call = "__init__"
    /\ \E answers \in Lists(SelTexts, MaxSelGold) \ {<<>>} :
          examples = <<new(<<"q1">>, <<"q">>, <<>>, answers, <<>>)>>
    /\ params = [substitution |-> "None"]
    /\ new_exs = <<>>
    /\ spc = "loop"
    /\ error = "None"
    /\ ex_idx = 1
    /\ wikidata_popularity_bins = None
    /\ sample_set \in SelPools
    /\ sub_key = None
    /\ selected = None
    /\ rng = 0
    /\ first_exs = None
    /\ context_spans = <<>>

\* an iteration of the loop: the condition holds and random.choice draws
\* the k-th key of the pool
draw(k) ==
    /\ spc = "loop"
    /\ rejects(examples[1], sub_key)
    /\ k \in 1..Len(sample_set)
    /\ sub_key' = Some(sample_set[k].text)
    /\ rng' = rng_next(rng)
    /\ UNCHANGED <<loop_vars, wikidata_info, first_vars, find_vars, answer_vars, sub_vars, bin_vars,
                   sample_set, selected>>

\* the condition fails: the loop ends and sample_set[sub_key] is returned
return_selected ==
    /\ spc = "loop"
    /\ ~rejects(examples[1], sub_key)
    /\ selected' = Some(SampleOf(sample_set, sub_key[1]))
    /\ spc' = "returned"
    /\ UNCHANGED <<loop_vars, wikidata_info, first_vars, find_vars, answer_vars, examples, params, new_exs,
                   error, bin_vars, sample_set, sub_key, rng>>

NextSelect ==
    \/ \E k \in 1..MaxPool : draw(k)
    \/ return_selected

SpecSelect == InitSelect /\ [][NextSelect]_vars

\* random.choice draws every key again and again, and the loop goes on
\* while it can
FairSpecSelect ==
    /\ SpecSelect
    /\ \A k \in 1..MaxPool : SF_vars(draw(k))
    /\ WF_vars(return_selected)

-----------------------------------------------------------------------------
(* A substitution run on a preprocessed dataset, one original example at   *)
(* a time.  The dataset is what preprocess leaves of raw examples in a     *)
(* small world: an annotator that knows five answer texts, and a store of  *)
(* five entities.                                                          *)

\* the store of the world: three humans, a city and a year
WorldStore ==
    <<[kb_id |-> "Q1",
       info |-> [label |-> <<"b">>, aliases |-> <<<<"B">>, <<"b", "b">>>>,
                 entity_types |-> <<"Q5">>, wikipedia_page |-> <<"b">>,
                 popularity |-> 1]],
      [kb_id |-> "Q2",
       info |-> [label |-> <<"c">>, aliases |-> <<<<"c", "c">>>>,
                 entity_types |-> <<"Q515">>, wikipedia_page |-> <<"c">>,
                 popularity |-> 2]],
      [kb_id |-> "Q3",
       info |-> [label |-> <<"d">>, aliases |-> <<<<"d", "d">>>>,
                 entity_types |-> <<"Year">>, wikipedia_page |-> <<"d">>,
                 popularity |-> 0]],
      [kb_id |-> "Q4",
       info |-> [label |-> <<"b", "b">>, aliases |-> <<>>,
                 entity_types |-> <<"Q5">>, wikipedia_page |-> <<"b", "b">>,
                 popularity |-> 2]],
      [kb_id |-> "Q6",
       info |-> [label |-> <<"a">>, aliases |-> <<>>,
                 entity_types |-> <<"Q5">>, wikipedia_page |-> <<"a">>,
                 popularity |-> 0]]>>

\* run_ner_linking(texts)[text]: what the annotator finds in an answer text
run_ner_linking(text) ==
    CASE text = <<"b">> -> <<[text |-> <<"b">>, label |-> "PERSON", id |-> "Q1"]>>
      [] text = <<"B">> -> <<[text |-> <<"B">>, label |-> "PERSON", id |-> "Q1"]>>
      [] text = <<"b", "b">> ->
             <<[text |-> <<"b", "b">>, label |-> "PERSON", id |-> "Q4"]>>
      [] text = <<"c">> -> <<[text |-> <<"c">>, label |-> "GPE", id |-> "Q2"]>>
      [] text = <<"d">> -> <<[text |-> <<"d">>, label |-> "DATE", id |-> "Q3"]>>
      [] OTHER -> <<>>

\* the loop of label_entities over the ner_infos of one answer
RECURSIVE label_entities(_, _, _)
label_entities(a, infos, k) ==
    IF k > Len(infos) THEN a
    ELSE label_entities(
             IF is_equivalent(a, infos[k].text)
             THEN update_ner_info(a, infos[k].label, infos[k].id) ELSE a,
             infos, k + 1)

\* preprocess on one example: label_entities, then wikidata_linking
preprocess(ex, store) ==
    [ex EXCEPT !.gold_answers =
        [k \in 1..Len(ex.gold_answers) |->
            LET labelled == label_entities(
                                ex.gold_answers[k],
                                run_ner_linking(ex.gold_answers[k].text), 1)
            IN  IF InStore(store, labelled.kb_id)
                THEN update_wikidata_info(labelled,
                                          StoreInfo(store, labelled.kb_id))
                ELSE labelled]]

\* the raw examples of the world: their contexts and answer texts
RawExamples ==
    {[context |-> <<"b", " ", "c">>, answers |-> <<<<"b">>>>],
     [context |-> <<"b", " ", "c">>, answers |-> <<<<"c">>, <<"b">>>>],
     [context |-> <<"B", " ", "b">>, answers |-> <<<<"B">>, <<"e">>>>],
     [context |-> <<"c">>, answers |-> <<<<"b", "b">>>>],
     [context |-> <<"c">>, answers |-> <<<<"e">>>>],
     [context |-> <<"d", " ", "c">>, answers |-> <<<<"d">>>>]}

\* a dataset: preprocessed raw examples, the i-th with the uid q<i>, a
\* query that repeats the context's words, and its position in the source
\* file as metadata
Datasets ==
    {[i \in 1..n |->
         preprocess(new(<<"q", Str(i)>>, raws[i].context \o <<"?">>,
                        raws[i].context, raws[i].answers,
                        <<[key |-> "line", value |-> Str(i)]>>),
                    WorldStore)] :
        <<n, raws>> \in
            UNION {{<<n, raws>> : raws \in [1..n -> RawExamples]} :
                      n \in 1..MaxExamples}}

\* the categories a run is started with
Categories == {"ALL", "PERSON", "DATE", "NONNUMERIC"}

\* --max_ents_per_pop of a popularity-substitution run (its default)
default_max_ents_per_pop == 10

\* the arguments of a run
RunParams ==
    [substitution : {"alias-substitution"}, replace_every : BOOLEAN,
     category : Categories, max_aliases : 0..MaxSamples]
    \cup [substitution : {"corpus-substitution", "type-swap-substitution"},
          replace_every : BOOLEAN, category : Categories,
          num_samples : 0..MaxSamples]
    \cup [substitution : {"popularity-substitution"}, replace_every : BOOLEAN,
          category : Categories, num_bins : 1..MaxBins]

Init ==
    /\ wikidata_info = WorldStore
    /\ answer = IdleAnswer
    /\ apc = "idle"
    /\ ner_seen = 0
    /\ last_call = "__init__"
    /\ examples \in Datasets
    /\ params = [substitution |-> "None"]
    /\ new_exs = <<>>
    /\ spc = "ready"
    /\ error = "None"
    /\ ex_idx = 1
    /\ wikidata_popularity_bins = None
    /\ sample_set = <<>>
    /\ sub_key = None
    /\ selected = None
    /\ rng = 0
    /\ first_exs = None
    /\ context_spans = <<>>

\* the lists of one pick from each set of a list of candidate sets
RECURSIVE picks_from(_, _)
picks_from(candidates, k) ==
    IF k > Len(candidates) THEN {<<>>}
    ELSE {<<c>> \o rest : c \in candidates[k],
                          rest \in picks_from(candidates, k + 1)}

\* a substitution function is called: its arguments are bound, new_exs is
\* empty, and popularity substitution bins the store
start_run ==
    /\ spc = "ready"
    /\ \E p \in RunParams :
          LET binned == bin_wikidata_entities_by_popularity(
                            wikidata_info, p.num_bins,
                            default_max_ents_per_pop)
          IN  /\ params' = p
              /\ IF p.substitution = "popularity-substitution"
                 THEN /\ wikidata_popularity_bins' =
                             IF binned.raised = "None"
                             THEN Some(binned.bins) ELSE None
                      /\ error' = binned.raised
                      /\ spc' = IF binned.raised = "None"
                                THEN "running" ELSE "raised"
                 ELSE /\ wikidata_popularity_bins' = None
                      /\ error' = "None"
                      /\ spc' = "running"
    /\ new_exs' = <<>>
    /\ ex_idx' = 1
    /\ UNCHANGED <<examples, wikidata_info, first_vars, find_vars, answer_vars, sel_vars>>

\* the body of the loop over dset.examples has run for the example at
\* ex_idx: `jobs` were its calls of create_new_example, `keep` tells which
\* of the examples made are collected, and `hung` whether the sampler was
\* then called with a pool it never leaves
example_done(jobs, order, keep, hung) ==
    LET ran == run_jobs(examples, ex_idx, jobs, 1, params.replace_every,
                        order, <<>>)
    IN  /\ examples' = ran.examples
        /\ error' = ran.raised
        /\ IF ran.raised # "None"
           THEN /\ spc' = "raised"
                /\ UNCHANGED <<new_exs, ex_idx>>
           ELSE /\ new_exs' = new_exs \o SubSeq(ran.sub_exs, 1, keep)
                /\ spc' = IF hung THEN "sampling" ELSE "running"
                /\ ex_idx' = IF hung THEN ex_idx ELSE ex_idx + 1
        /\ UNCHANGED <<params, wikidata_info, first_vars, find_vars, answer_vars, bin_vars, sel_vars>>

\* the loop body raised `exception` before any call of create_new_example
example_raised(exception) ==
    /\ error' = exception
    /\ spc' = "raised"
    /\ UNCHANGED <<examples, new_exs, ex_idx, params, wikidata_info, first_vars, find_vars,
                   answer_vars, bin_vars, sel_vars>>

\* alias_substitution_fn: the loop body for one example
alias_substitution_step ==
    /\ spc = "running"
    /\ params.substitution = "alias-substitution"
    /\ ex_idx <= Len(examples)
    /\ LET ex == examples[ex_idx]
           check == alias_category_check(params.category,
                                         get_example_answer_type(ex))
       IN  IF check = "AttributeError" THEN example_raised("AttributeError")
           ELSE IF check = "skip" THEN example_done(<<>>, <<>>, 0, FALSE)
           ELSE \E valid_aliases \in Orders(valid_alias_set(ex)),
                   order \in Orders(replace_strs(ex)) :
                   example_done(
                       alias_jobs(ex, valid_aliases), order,
                       Len(cap_aliases(valid_aliases, params.max_aliases)),
                       FALSE)

\* corpus_substitution_fn: the loop body for one example
corpus_substitution_step ==
    /\ spc = "running"
    /\ params.substitution = "corpus-substitution"
    /\ ex_idx <= Len(examples)
    /\ LET ex == examples[ex_idx]
           ex_ans_typ == get_example_answer_type(ex)
           pool == select_random_non_identical_answer(
                       ex, answer_group(examples, ex_ans_typ))
       IN  IF category_check(params.category, ex_ans_typ) = "skip"
              \/ params.num_samples = 0
           THEN example_done(<<>>, <<>>, 0, FALSE)
           ELSE IF pool = {} THEN example_done(<<>>, <<>>, 0, TRUE)
           ELSE \E picks \in picks_from([n \in 1..params.num_samples |-> pool], 1),
                   order \in Orders(replace_strs(ex)) :
                   example_done(
                       [n \in 1..Len(picks) |->
                           sample_job("corpus-sub-", n - 1, picks[n])],
                       order, Len(picks), FALSE)

\* popularity_substitution_fn: the loop body for one example
popularity_substitution_step ==
    /\ spc = "running"
    /\ params.substitution = "popularity-substitution"
    /\ ex_idx <= Len(examples)
    /\ LET ex == examples[ex_idx]
           bins == wikidata_popularity_bins[1]
       IN  IF category_check(params.category,
                             get_example_answer_type(ex)) = "skip"
           THEN example_done(<<>>, <<>>, 0, FALSE)
           ELSE \E picks \in picks_from(
                       [b \in 1..Len(bins) |->
                           {bins[b][n] : n \in 1..Len(bins[b])}], 1),
                   order \in Orders(replace_strs(ex)) :
                   example_done(
                       [b \in 1..Len(picks) |->
                           popularity_job(b - 1, picks[b])],
                       order, Len(picks), FALSE)

\* type_swap_substitution_fn: the loop body for one example.  The target
\* groups are visited in order, up to the first one whose pool the sampler
\* never leaves.
type_swap_substitution_step ==
    /\ spc = "running"
    /\ params.substitution = "type-swap-substitution"
    /\ ex_idx <= Len(examples)
    /\ LET ex == examples[ex_idx]
           targets == swap_targets(examples, ex)
           pool(t) == select_random_non_identical_answer(
                          ex, answer_group(examples, targets[t]))
           reached == {t \in 1..Len(targets) :
                          \A u \in 1..t : pool(u) # {}}
           count == Cardinality(reached) * params.num_samples
           target_of(n) == ((n - 1) \div params.num_samples) + 1
           idx_of(n) == (n - 1) % params.num_samples
       IN  IF category_check(params.category,
                             get_example_answer_type(ex)) = "skip"
              \/ params.num_samples = 0
           THEN example_done(<<>>, <<>>, 0, FALSE)
           ELSE \E picks \in picks_from(
                       [n \in 1..count |-> pool(target_of(n))], 1),
                   order \in Orders(replace_strs(ex)) :
                   example_done(
                       [n \in 1..Len(picks) |->
                           sample_job("type-swap-sub-", idx_of(n), picks[n])],
                       order, Len(picks),
                       Cardinality(reached) < Len(targets))

\* the loop over dset.examples is over: the substitution function returns
\* new_exs
return_new_exs ==
    /\ spc = "running"
    /\ ex_idx > Len(examples)
    /\ spc' = "returned"
    /\ UNCHANGED <<loop_vars, examples, params, new_exs, error, wikidata_info, first_vars, find_vars,
                   answer_vars, bin_vars, sel_vars>>

\* the run is over; its arguments and locals are gone, and the dataset is
\* there for the next run
run_again ==
    /\ spc \in {"returned", "raised"}
    /\ spc' = "ready"
    /\ params' = [substitution |-> "None"]
    /\ new_exs' = <<>>
    /\ error' = "None"
    /\ ex_idx' = 1
    /\ wikidata_popularity_bins' = None
    /\ UNCHANGED <<examples, wikidata_info, first_vars, find_vars, answer_vars, sel_vars>>

Next ==
    \/ start_run
    \/ alias_substitution_step
    \/ corpus_substitution_step
    \/ popularity_substitution_step
    \/ type_swap_substitution_step
    \/ return_new_exs
    \/ run_again

Spec == Init /\ [][Next]_vars

\* the same substitution function is called a second time, in another
\* process, on the same dataset with the same arguments; what the first
\* call returned is kept for comparison
second_run ==
    /\ spc = "returned"
    /\ first_exs = None
    /\ first_exs' = Some(new_exs)
    /\ new_exs' = <<>>
    /\ ex_idx' = 1
    /\ spc' = "running"
    /\ UNCHANGED <<examples, params, error, wikidata_info, answer_vars,
                   bin_vars, sel_vars, find_vars>>

NextTwoRuns ==
    \/ start_run
    \/ alias_substitution_step
    \/ corpus_substitution_step
    \/ popularity_substitution_step
    \/ type_swap_substitution_step
    \/ return_new_exs
    \/ second_run

\* the datasets on which two runs are compared
InitTwoRuns == Init /\ Len(examples) <= MaxTwoRunExamples

SpecTwoRuns == InitTwoRuns /\ [][NextTwoRuns]_vars

-----------------------------------------------------------------------------
(* Claims about the Answer and its classifier.                             *)

\* C1 (as claimed): in every reachable state of an Answer its answer_type
\* is the classifier's output on its current (ner_label, wikidata_types).
C1_AnswerTypeIsClassified ==
    answer.answer_type
        = _select_answer_type(answer.ner_label, answer.wikidata_types)

\* The rules of the Answer-Type Classifier as the specification tabulates
\* them, on a label and the set of type codes.
ClassifierRule(ner_label, types) ==
    CASE ner_label = "PERSON" -> "PERSON"
      [] ner_label = "DATE" -> "DATE"
      [] ner_label = "CARDINAL" /\ "year" \in types -> "DATE"
      [] ner_label = "CARDINAL" /\ "year" \notin types -> "NUMERIC"
      [] ner_label = "QUANTITY" -> "NUMERIC"
      [] ner_label \in {"GPE", "LOC"} -> "LOCATION"
      [] ner_label = "ORG" -> "ORGANIZATION"
      [] OTHER -> "None"

\* the set of the elements of a list
SetOf(l) == {l[i] : i \in 1..Len(l)}

\* C2: whenever update_wikidata_info ran last on an Answer (the one place
\* the classifier runs), its answer_type is the one the rule table gives
\* for its ner_label and the set of its wikidata_types.
C2_ClassifierRules ==
    last_call = "update_wikidata_info"
    => answer.answer_type
         = ClassifierRule(answer.ner_label, SetOf(answer.wikidata_types[1]))

\* C2 (witness): a CARDINAL answer with "year" among its types was typed DATE
C2_Witness ==
    /\ last_call = "update_wikidata_info"
    /\ answer.ner_label = "CARDINAL"
    /\ InList("year", answer.wikidata_types[1])
    /\ answer.answer_type = "DATE"
-----------------------------------------------------------------------------
(* Claims about apply_substitution.                                        *)

\* the original example a derived example points back to
OriginalOf(d) == examples[d.original_example[1]]

\* C3 (as claimed): the spans of the single gold answer of every derived
\* example are exactly the occurrences of its text in the new context.
C3_SpansAreRecomputed ==
    \A k \in 1..Len(new_exs) :
        new_exs[k].gold_answers[1].spans
            = Some(_find_answer_in_context(new_exs[k].gold_answers[1].text,
                                           new_exs[k].context))

C5_NoAnswerInContextFails ==
    (/\ spc \in {"returned", "raised"}
     /\ ~params.replace_every
     /\ \A k \in 1..Len(examples[1].gold_answers) :
           ~is_answer_in_context(examples[1].gold_answers[k]))
    => (spc = "raised" /\ error = "IndexError" /\ new_exs = <<>>)

\* C5 (witness): such a call was made and raised
C5_Witness ==
    /\ spc = "raised"
    /\ ~params.replace_every
    /\ \A k \in 1..Len(examples[1].gold_answers) :
          examples[1].gold_answers[k].spans = Some(<<>>)
-----------------------------------------------------------------------------
(* Claims about the popularity binner.                                     *)

\* C9 (as claimed): the binner returns exactly num_bins bins.
C9_ExactlyNumBins ==
    spc = "returned" => Len(wikidata_popularity_bins[1]) = params.num_bins

\* the positions of the store's surviving entries: the humans (type Q5)
\* that are among the first max_ents_per_pop humans of their popularity
Surviving ==
    {k \in 1..Len(wikidata_info) :
        /\ "Q5" \in SetOf(wikidata_info[k].info.entity_types)
        /\ Cardinality({j \in 1..(k - 1) :
               /\ "Q5" \in SetOf(wikidata_info[j].info.entity_types)
               /\ wikidata_info[j].info.popularity
                    = wikidata_info[k].info.popularity})
             < params.max_ents_per_pop}

\* the places <<bin, position>> of the returned bins
BinPlaces ==
    {<<b, n>> \in (1..MaxBinEntities) \X (1..MaxBinEntities) :
        /\ b <= Len(wikidata_popularity_bins[1])
        /\ n <= Len(wikidata_popularity_bins[1][b])}

BinEntry(place) == wikidata_popularity_bins[1][place[1]][place[2]]

\* C10: the returned bins partition the surviving entities: every
\* surviving entity is at exactly one place of the bins, every place holds
\* a surviving entity, the bin sizes add up to the surviving count, and an
\* entity of an earlier bin is never more popular than one of a later bin.
C10_BinsPartitionSurvivors ==
    spc = "returned" =>
        /\ \A k \in Surviving :
              Cardinality({pl \in BinPlaces :
                              BinEntry(pl).kb_id = wikidata_info[k].kb_id}) = 1
        /\ \A pl \in BinPlaces :
              \E k \in Surviving : BinEntry(pl) = wikidata_info[k]
        /\ Cardinality(BinPlaces) = Cardinality(Surviving)
        /\ \A p1, p2 \in BinPlaces :
              p1[1] < p2[1] =>
                  BinEntry(p1).info.popularity <= BinEntry(p2).info.popularity

\* C10 (witness): a store with a non-human and more humans of one
\* popularity than the cap was cut into two or more bins
C10_Witness ==
    /\ spc = "returned"
    /\ Len(wikidata_popularity_bins[1]) >= 2
    /\ Cardinality(Surviving) < Len(wikidata_info)
    /\ \E k \in 1..Len(wikidata_info) :
          /\ k \notin Surviving
          /\ "Q5" \in SetOf(wikidata_info[k].info.entity_types)
    /\ \E k \in 1..Len(wikidata_info) :
          "Q5" \notin SetOf(wikidata_info[k].info.entity_types)
\* C11 (as claimed): called with num_bins <= 0 the binner ends in a
\* failure; it never returns a list of bins.
C11_NonPositiveNumBinsFails ==
    params.num_bins <= 0 => spc # "returned"

-----------------------------------------------------------------------------
(* Claims about the rejection sampler.                                     *)

\* C7 (as claimed): the rejection sampling always terminates: it returns
\* an answer or ends in a failure.
C7_SamplingTerminates == <>(spc \in {"returned", "raised"})

\* C8: the answer the sampler returns has a normalized text different from
\* the normalized text of every gold answer of the example.
C8_SubstituteIsNotGold ==
    selected # None =>
        \A k \in 1..Len(examples[1].gold_answers) :
            normalize_text(selected[1].text)
                # normalize_text(examples[1].gold_answers[k].text)

\* C8 (witness): an answer was returned from a pool that also holds an
\* answer whose text differs from a gold answer's only by normalization
C8_Witness ==
    /\ selected # None
    /\ \E k \in 1..Len(sample_set), g \in 1..Len(examples[1].gold_answers) :
          /\ sample_set[k].text # examples[1].gold_answers[g].text
          /\ normalize_text(sample_set[k].text)
               = normalize_text(examples[1].gold_answers[g].text)

-----------------------------------------------------------------------------
(* Claims about the substitution runs.                                     *)

\* the derived examples collected from the i-th original, as positions of
\* new_exs
DerivedFrom(i) ==
    {n \in 1..Len(new_exs) : new_exs[n].original_example = Some(i)}

\* the i-th original has an answer type and the category filter of the run
\* is ALL or names that type
FilterMatches(i) ==
    LET type == get_example_answer_type(examples[i])
    IN  /\ type # "None"
        /\ params.category = "ALL" \/ params.category = type

\* C6: no step of a run of any of the four substitution functions, in any
\* of any number of runs, changes an original example of the dataset: uid,
\* query, context, gold_answers, is_substitute and original_example of
\* every example of dset.examples stay what they were.
C6_OriginalsUnchanged == [][examples' = examples]_vars

\* C6 witness: a run has returned derived examples, one of them with a
\* context that is no longer its original's
C6_Witness ==
    /\ spc = "returned"
    /\ Len(new_exs) >= 2
    /\ \E n \in 1..Len(new_exs) :
          /\ new_exs[n].is_substitute
          /\ new_exs[n].context # OriginalOf(new_exs[n]).context
          /\ new_exs[n].uid # OriginalOf(new_exs[n]).uid

\* C12 (as claimed): a popularity substitution run that returns has derived
\* exactly num_bins examples from every original that matches the filter.
C12_NumBinsPerOriginal ==
    (spc = "returned" /\ params.substitution = "popularity-substitution") =>
        \A i \in 1..Len(examples) :
            FilterMatches(i) => Cardinality(DerivedFrom(i)) = params.num_bins

\* the answer types of the Corpus Index: those of the gold answers of the
\* originals
CorpusTypes ==
    {examples[i].gold_answers[k].answer_type :
        <<i, k>> \in {ik \in (1..Len(examples)) \X (1..MaxGold) :
                        ik[2] <= Len(examples[ik[1]].gold_answers)}}
        \ {"None"}

C14_CorpusKeepsType ==
    (spc = "returned" /\ params.substitution = "corpus-substitution") =>
        \A i \in 1..Len(examples) :
            FilterMatches(i) =>
                /\ Cardinality(DerivedFrom(i)) = params.num_samples
                /\ \A n \in DerivedFrom(i) :
                      /\ Len(new_exs[n].gold_answers) = 1
                      /\ new_exs[n].gold_answers[1].answer_type
                            = get_example_answer_type(examples[i])

\* C14 witness: two samples were drawn for an original from a corpus with
\* answers of another type too
C14_Witness ==
    /\ spc = "returned"
    /\ params.substitution = "corpus-substitution"
    /\ params.num_samples = 2
    /\ Cardinality(CorpusTypes) >= 2
    /\ \E i \in 1..Len(examples) :
          /\ FilterMatches(i)
          /\ Cardinality(DerivedFrom(i)) = 2

\* the aliases of the gold answers of the i-th original that are not the
\* text of one of its gold answers
AliasesNotGold(i) ==
    LET golds == examples[i].gold_answers
    IN  UNION {SetOf(golds[g].aliases[1]) :
                  g \in {g \in 1..Len(golds) : golds[g].aliases # None}}
            \ {golds[g].text : g \in 1..Len(golds)}

\* C15 (as claimed): an alias substitution run derives from every original
\* at most max_aliases examples, for every max_aliases (0 too), and never
\* more than it has aliases that are not a gold answer text.
C15_AtMostMaxAliases ==
    params.substitution = "alias-substitution" =>
        \A i \in 1..Len(examples) :
            /\ Cardinality(DerivedFrom(i)) <= params.max_aliases
            /\ Cardinality(DerivedFrom(i)) <= Cardinality(AliasesNotGold(i))

ShouldExpand(i) ==
    LET type == get_example_answer_type(examples[i])
    IN  \/ params.category = "ALL"
        \/ type # "None" /\ params.category = type
        \/ params.category = "NONNUMERIC"
              /\ type \notin {"None", "DATE", "NUMERIC"}

\* C17 (as claimed): alias substitution derives examples from an original
\* only if the filter lets it through, derives some from every original
\* it lets through that has an alias to offer, and skips the others
\* without an error.
C17_AliasCategoryFilter ==
    params.substitution = "alias-substitution" =>
        /\ error # "AttributeError"
        /\ \A i \in 1..Len(examples) :
              /\ DerivedFrom(i) # {} => ShouldExpand(i)
              /\ (i < ex_idx /\ ShouldExpand(i) /\ AliasesNotGold(i) # {})
                    => DerivedFrom(i) # {}

\* C18 (as claimed): the uids of the derived examples of a run are pairwise
\* distinct (the uids of the originals are).
C18_DerivedUidsDistinct ==
    \A n, m \in 1..Len(new_exs) :
        n # m => new_exs[n].uid # new_exs[m].uid

\* the two runs made the same random choices: alias substitution makes
\* none, the other substitution functions drew the same substitutes in the
\* same order
SameChoices ==
    \/ params.substitution = "alias-substitution"
    \/ /\ Len(first_exs[1]) = Len(new_exs)
       /\ \A n \in 1..Len(new_exs) :
             first_exs[1][n].gold_answers = new_exs[n].gold_answers

\* C19 (as claimed): two runs of a substitution function on the same
\* dataset with the same arguments and the same random choices return the
\* same sequence of derived examples.
C19_RunsAgree ==
    (spc = "returned" /\ first_exs # None /\ SameChoices) =>
        new_exs = first_exs[1]

\* C20: in every state of every run, an original is no substitute and has
\* no original_example, and a derived example is a substitute whose
\* original_example is an original of the dataset, so that the chain of
\* ancestors of a derived example has length one.
C20_OneHopAncestry ==
    /\ \A i \in 1..Len(examples) :
          /\ ~examples[i].is_substitute
          /\ examples[i].original_example = None
    /\ \A n \in 1..Len(new_exs) :
          /\ new_exs[n].is_substitute
          /\ new_exs[n].original_example # None
          /\ new_exs[n].original_example[1] \in 1..Len(examples)
          /\ ~OriginalOf(new_exs[n]).is_substitute
          /\ OriginalOf(new_exs[n]).original_example = None

\* C20 witness: a run has returned examples derived from both originals of
\* a dataset
C20_Witness ==
    /\ spc = "returned"
    /\ Len(examples) = 2
    /\ DerivedFrom(1) # {}
    /\ DerivedFrom(2) # {}

-----------------------------------------------------------------------------
(* Claims about span location (SpecFind).                                  *)

\* the 0-based pair <<s, e>> is a case-insensitive literal occurrence of
\* needle in haystack
IsOccurrence(needle, haystack, s, e) ==
    /\ 0 <= s /\ s <= e /\ e <= Len(haystack)
    /\ lower(SubSeq(haystack, s + 1, e)) = lower(needle)

\* the 0-based pairs that are occurrences of needle in haystack
Occurrences(needle, haystack) ==
    {se \in (0..Len(haystack)) \X (0..Len(haystack)) :
        IsOccurrence(needle, haystack, se[1], se[2])}

\* two 0-based pairs share a character
Overlap(a, b) == a[1] < b[2] /\ b[1] < a[2]

\* C21: every call of _find_answer_in_context(needle, haystack) returns
\* pairs that are case-insensitive literal occurrences of needle in
\* haystack, left to right and non-overlapping, leaving out no occurrence
\* except those that overlap a returned one (so the empty list exactly
\* when needle does not occur), and every call returns what the first
\* call returned
C21_FindsOccurrences ==
    \A c \in 1..Len(context_spans) :
        LET r == context_spans[c]
            occ == Occurrences(params.answer_text, params.context)
        IN  /\ \A k \in 1..Len(r) : r[k] \in occ
            /\ \A k \in 1..(Len(r) - 1) :
                   r[k][2] <= r[k + 1][1] /\ r[k][1] < r[k + 1][1]
            /\ \A se \in occ :
                   \E k \in 1..Len(r) : r[k] = se \/ Overlap(r[k], se)
            /\ r = context_spans[1]

-----------------------------------------------------------------------------
(* Claims about one substitution (SpecApply), continued.                   *)

\* the substitute answer create_new_example builds for the call
SubAnswer ==
    Answer(params.answer_text, None, "None", "None", None, None, None, None,
           None, "None")

\* C22: after apply_substitution(sub_answer, original, tag, ...) returns,
\* the example's uid is tag + "_" + its previous uid, its gold_answers is
\* the one-element list [sub_answer], is_substitute is true and
\* original_example is the supplied original
C22_ApplySetsFields ==
    spc = "returned" =>
        /\ Len(new_exs) = 1
        /\ new_exs[1].uid = <<"sub">> \o <<"_">> \o examples[1].uid
        /\ new_exs[1].gold_answers = <<SubAnswer>>
        /\ new_exs[1].is_substitute = TRUE
        /\ new_exs[1].original_example = Some(1)

\* C22 (witness): a substitution was applied to an example with two gold
\* answers whose context it rewrote
C22_Witness ==
    /\ spc = "returned"
    /\ Len(new_exs) = 1
    /\ Len(examples[1].gold_answers) = 2
    /\ new_exs[1].context # examples[1].context

-----------------------------------------------------------------------------
(* Claims about the strategies (Spec), continued.                          *)

\* C23: every derived example's query and metadata equal those of the
\* original it was derived from
C23_QueryAndMetadataKept ==
    \A k \in 1..Len(new_exs) :
        /\ new_exs[k].query = OriginalOf(new_exs[k]).query
        /\ new_exs[k].metadata = OriginalOf(new_exs[k]).metadata

\* C23 (witness): a run returned a derived example whose context was
\* rewritten and whose query holds a text that was replaced in the context
C23_Witness ==
    /\ spc = "returned"
    /\ \E k \in 1..Len(new_exs) :
          /\ new_exs[k].context # OriginalOf(new_exs[k]).context
          /\ \E str \in replace_strs(OriginalOf(new_exs[k])) :
                 replace(new_exs[k].query, str, <<>>) # new_exs[k].query

-----------------------------------------------------------------------------
(* Claims about the rewriting of the context (SpecApply).                  *)

\* the position of the first gold answer with non-empty spans, 0 if none
FirstInContext(ex) ==
    IF \A k \in 1..Len(ex.gold_answers) :
           ~is_answer_in_context(ex.gold_answers[k])
    THEN 0
    ELSE CHOOSE k \in 1..Len(ex.gold_answers) :
             /\ is_answer_in_context(ex.gold_answers[k])
             /\ \A j \in 1..(k - 1) : ~is_answer_in_context(ex.gold_answers[j])

\* the surface forms of the k-th gold answer: the distinct slices of the
\* context at its located spans
SurfaceForms(ex, k) ==
    LET spans == _find_answer_in_context(ex.gold_answers[k].text, ex.context)
    IN  {Slice(ex.context, spans[n]) : n \in 1..Len(spans)}

\* C24: with replace_every false, the new context is the old one with
\* only the surface forms of the first gold answer that has non-empty
\* spans replaced by the substitute's text; the occurrences of the other
\* gold answers' texts stay
C24_OnlyFirstAnswerReplaced ==
    (spc = "returned" /\ ~params.replace_every) =>
        \E order \in Orders(SurfaceForms(examples[1],
                                         FirstInContext(examples[1]))) :
            new_exs[1].context
                = replace_all(examples[1].context, order, 1,
                              params.answer_text)

\* the contexts in which, reading `context` from 1-based position pos on,
\* every occurrence of a string of `strs` met is replaced once by sub_text
\* and every other character is kept (where several strings of the set
\* occur at one position, either may be the one replaced)
RECURSIVE ReplacedOnce(_, _, _, _)
ReplacedOnce(context, strs, sub_text, pos) ==
    IF pos > Len(context) THEN {<<>>}
    ELSE LET here == {str \in strs :
                         /\ pos + Len(str) - 1 <= Len(context)
                         /\ SubSeq(context, pos, pos + Len(str) - 1) = str}
         IN  IF here = {}
             THEN {<<context[pos]>> \o rest :
                      rest \in ReplacedOnce(context, strs, sub_text, pos + 1)}
             ELSE UNION {{sub_text \o rest :
                             rest \in ReplacedOnce(context, strs, sub_text,
                                                   pos + Len(str))} :
                            str \in here}

\* C25: the context apply_substitution produces is the original context
\* with every occurrence of each distinct matched surface string replaced,
\* once, by the substitute's text and nothing else changed
C25_EachOccurrenceReplacedOnce ==
    spc = "returned" =>
        new_exs[1].context
            \in ReplacedOnce(examples[1].context, replace_strs(examples[1]),
                             params.answer_text, 1)

\* str occurs in context at 1-based position pos, case-sensitively
OccursAt(context, str, pos) ==
    /\ pos >= 1
    /\ pos + Len(str) - 1 <= Len(context)
    /\ SubSeq(context, pos, pos + Len(str) - 1) = str

\* the strings of the set are pairwise non-nested (none occurs in another)
\* and non-overlapping (no two of their occurrences in the context share a
\* character)
NonOverlapping(context, strs) ==
    \A s1, s2 \in strs :
        s1 # s2 =>
            /\ \A pos \in 1..Len(s2) : ~OccursAt(s2, s1, pos)
            /\ \A p1, p2 \in 1..Len(context) :
                   (OccursAt(context, s1, p1) /\ OccursAt(context, s2, p2))
                       => (p1 + Len(s1) <= p2 \/ p2 + Len(s2) <= p1)

\* C26: when the matched surface strings are pairwise non-overlapping and
\* non-nested, the context the call produces is the one every processing
\* order of the set produces
C26_OrderIndependent ==
    (/\ spc = "returned"
     /\ NonOverlapping(examples[1].context, replace_strs(examples[1])))
    => \A order \in Orders(replace_strs(examples[1])) :
           new_exs[1].context
               = replace_all(examples[1].context, order, 1,
                             params.answer_text)

-----------------------------------------------------------------------------
(* Claims about the popularity binner (SpecBin), continued.                *)

\* ceil(a / b) for a >= 0 and b >= 1
CeilDiv(a, b) == (a + b - 1) \div b

\* C27: the returned bins are chunks of ceil(count / num_bins) entities,
\* count being the number of surviving entities; only the last chunk may
\* be shorter
C27_ChunksOfCeilSize ==
    spc = "returned" =>
        LET bins == wikidata_popularity_bins[1]
            size == CeilDiv(Cardinality(Surviving), params.num_bins)
        IN  \A b \in 1..Len(bins) :
                /\ Len(bins[b]) <= size
                /\ b < Len(bins) => Len(bins[b]) = size

-----------------------------------------------------------------------------
(* Claims about the Corpus Index (Spec).                                   *)

\* a run of a strategy that builds the Corpus Index has been started
IndexBuilt ==
    /\ spc # "ready"
    /\ params.substitution
           \in {"corpus-substitution", "type-swap-substitution"}

\* C28: per answer type the Corpus Index holds at most one entry per
\* normalized answer text, and every entry is an answer of the dataset
\* with a non-absent answer_type, filed under its own answer_type
C28_OneEntryPerNormalizedText ==
    IndexBuilt =>
        \A group \in SetOf(group_types(examples)) :
            LET entries == answer_group(examples, group)
            IN  /\ \A k, n \in 1..Len(entries) :
                       k # n => normalize_text(entries[k].text)
                                   # normalize_text(entries[n].text)
                /\ \A k \in 1..Len(entries) :
                       /\ entries[k].answer_type = group
                       /\ group # "None"
                       /\ InList(entries[k], answers_from(examples, 1))

-----------------------------------------------------------------------------
(* Claims about one substitution (SpecApply): answers not in context.      *)

\* none of the gold answers' texts occurs in the context of the example
NoAnswerOccurs(ex) ==
    \A k \in 1..Len(ex.gold_answers) :
        _find_answer_in_context(ex.gold_answers[k].text, ex.context) = <<>>

\* C29: a call with replace_every true on an example none of whose gold
\* answers' texts occurs in the context does not fail; it yields an example
\* with the context unchanged, the new uid, is_substitute true and
\* gold_answers [sub_answer]
C29_ReplaceEveryWithoutOccurrence ==
    (/\ spc \in {"returned", "raised"}
     /\ params.replace_every
     /\ NoAnswerOccurs(examples[1]))
    => /\ spc = "returned"
       /\ error = "None"
       /\ Len(new_exs) = 1
       /\ new_exs[1].context = examples[1].context
       /\ new_exs[1].uid = <<"sub">> \o <<"_">> \o examples[1].uid
       /\ new_exs[1].is_substitute = TRUE
       /\ new_exs[1].gold_answers = <<SubAnswer>>

\* C29 (witness): such a call returned, and the substitute's text does not
\* occur in the context of the example it yielded
C29_Witness ==
    /\ spc = "returned"
    /\ params.replace_every
    /\ NoAnswerOccurs(examples[1])
    /\ Len(examples[1].context) > 0
    /\ Len(new_exs) = 1
    /\ _find_answer_in_context(params.answer_text, new_exs[1].context) = <<>>

\* `str in s`: str occurs in s, case-sensitively
Contains(s, str) == \E pos \in 1..(Len(s) + 1) : OccursAt(s, str, pos)

\* C30: after a call whose substitute text is non-empty and contains none
\* of the matched surface strings, none of those strings occurs in the new
\* context, whatever the order in which the set was processed
C30_NoMatchedStringLeft ==
    (/\ spc = "returned"
     /\ params.answer_text # <<>>
     /\ \A str \in replace_strs(examples[1]) :
            ~Contains(params.answer_text, str))
    => \A str \in replace_strs(examples[1]) :
           ~Contains(new_exs[1].context, str)
====
